---- MODULE Spec2Model ----
(***************************************************************************)
(* The per-channel delivery workers of the notification fabric (email and  *)
(* push), the circuit breaker they share, the deliveries table and the     *)
(* webhook reconciler, as one state machine.                               *)
(*                                                                         *)
(* `worker` selects which process a behaviour describes: the email worker  *)
(* (consumer + orchestrator + webhook route, one process, one table), the  *)
(* push worker (its own process and table), or a circuit breaker called by *)
(* concurrent tasks.  The processes share no state, so each is explored    *)
(* from its own initial states.                                            *)
(***************************************************************************)
EXTENDS Integers, Sequences, FiniteSets, TLC

(* ---------------- program constants ---------------- *)
\* settings.MAX_RETRY_ATTEMPTS: stop_after_attempt of the send step
MAX_RETRY_ATTEMPTS == 3
\* settings.CIRCUIT_BREAKER_FAIL_MAX: failure_threshold of every breaker
CIRCUIT_BREAKER_FAIL_MAX == 5
\* settings.CIRCUIT_BREAKER_TIMEOUT: seconds a breaker stays open
CIRCUIT_BREAKER_TIMEOUT == 60

(* ---------------- bounds of the model ---------------- *)
\* how many times the worker process may stop with messages in flight
MaxCrashes == 1
\* handlers running at once (the model's stand-in for prefetch_count): the
\* handlers of different jobs write disjoint rows and gateway entries
MaxInFlight == 1
\* how many webhook events the transport posts
MaxWebhooks == 2
\* the clock advances in steps of TickSeconds up to MaxTime (seconds)
TickSeconds == 30
\* handler tasks looking preferences up at the same time
MaxHandlers == 1
MaxTime == 150

\* the jobs on the queue; the notification_id of a job is its name
Msgs == {"n1", "n2"}
\* the k-th delivery of a job to the worker
Runs == 1..(MaxCrashes + 1)
\* primary keys of the deliveries table: the row created by run k of job n
RowIds == Msgs \X Runs
\* the absent provider_message_id (NULL)
NoPmid == <<"null", 0>>
\* the empty string as a message id
EmptyPmid == <<"", 0>>
\* message ids the transport assigns: one per accepted send, named after the
\* run it was accepted in (X-Message-Id is unique per accepted message)
PMIDs == RowIds
\* the tasks calling one breaker concurrently
Callers == {"c1", "c2", "c3"}
\* what a failed SendResult reports in result.error: a failure that may pass
\* (timeout, network error, HTTP 5xx) or one that will not (HTTP 4xx, bad
\* recipient)
ProviderErrors == {"transient", "permanent"}
\* settings.CACHE_TTL, seconds
CACHE_TTL == 300
\* the TTL, in seconds, of the user service's own cache of a user's preferences
USER_CACHE_TTL == 3600
\* preference updates made per user
MaxUpdates == 1
\* times the clock is advanced by a whole CACHE_TTL
MaxWaits == 1
\* the users whose preferences are looked up
Users == {"u1", "u2"}
\* the handler tasks that look preferences up
Handlers == 1..MaxHandlers
\* UserPreferences as the channel gate reads them: email_enabled false,
\* email_enabled with no address, email_enabled with an address
PrefValues == {"disabled", "noaddr", "ok"}
\* the absent datetime (None) of last_failure_time
NoTime == -1

VARIABLES
    worker,       \* "email" | "push" | "breaker" | "prefs" | "webhook": the process described
    body,         \* body[n]: what the queued message holds
    broker,       \* broker[n]: the broker's state of the message
    deliveries,   \* deliveries[n]: times the broker has delivered it
    h,            \* h[n]: the handler task of the in-flight message
    txn,          \* txn[n]: the row flushed in the handler's open session
    db,           \* db[r]: the committed deliveries table
    calls,        \* calls[n]: provider calls made by the current run
    path,         \* path[n]: how the current (or last) run ended
    gateway,      \* gateway[n]: status of the last PATCH sent for n
    breaker,      \* the circuit breaker object
    now,          \* the clock, in seconds
    caller,       \* caller[c]: a task calling the breaker
    consecFails,  \* consecutive provider sends that ended ok:false
    crashes,      \* times the worker process has stopped
    webhooks,     \* webhook events received
    lookup,       \* lookup[t]: a handler task fetching user preferences
    cache,        \* cache[u]: the cached preferences of user u and their expiry
    userService,  \* userService[u]: the preferences the user service holds
    route,        \* the webhook request being served and its session
    report,       \* report[n]: the status report a handler is making
    userStore,    \* userStore[u]: the user service's own cache entry of u's preferences
    client,       \* one invocation of an ExternalAPIClient method
    retry_count   \* RabbitMQConsumer.retry_count of the user service's consumer

\* the state of the preference lookup
prefsVars == <<lookup, cache, userService, userStore>>

\* the state of the webhook route and of the status reports
routeVars == <<route, report>>

\* the state of a single client call and of the user service's consumer
peerVars == <<client, retry_count>>

vars == <<worker, body, broker, deliveries, h, txn, db, calls, path, gateway,
          breaker, now, caller, consecFails, crashes, webhooks, lookup, cache,
          userService, route, report, userStore, client, retry_count>>

(* ---------------- the deliveries table ---------------- *)
\* A row of email_deliveries / push_deliveries; status "absent" = no row.
Absent ==
    [status |-> "absent", pmid |-> NoPmid, attempt_count |-> 0,
     sent_at |-> FALSE, delivered_at |-> FALSE, failed_at |-> FALSE,
     error |-> "null"]

\* EmailDelivery(... status="pending" ...) with the column defaults
NewDelivery ==
    [status |-> "pending", pmid |-> NoPmid, attempt_count |-> 0,
     sent_at |-> FALSE, delivered_at |-> FALSE, failed_at |-> FALSE,
     error |-> "null"]

\* a faulty update_status that writes provider_message_id even when the
\* argument is None (C23 fails of it)
update_status_overwrites_pmid(row, status, error_message, provider_message_id) ==
    [row EXCEPT
        !.status = status,
        !.sent_at = IF status = "sent" THEN TRUE ELSE @,
        !.delivered_at = IF status = "delivered" THEN TRUE ELSE @,
        !.failed_at = IF status = "failed" THEN TRUE ELSE @,
        !.error = IF error_message # "null" THEN error_message ELSE @,
        !.pmid = provider_message_id]

\* a faulty update_status that writes every column but status (C8 fails of it)
update_status_keeps_status(row, status, error_message, provider_message_id) ==
    [row EXCEPT
        !.sent_at = IF status = "sent" THEN TRUE ELSE @,
        !.delivered_at = IF status = "delivered" THEN TRUE ELSE @,
        !.failed_at = IF status = "failed" THEN TRUE ELSE @,
        !.error = IF error_message # "null" THEN error_message ELSE @,
        !.pmid = IF provider_message_id # NoPmid THEN provider_message_id ELSE @]

\* EmailDeliveryRepository.update_status: an unconditional UPDATE of the row;
\* a falsy error_message / provider_message_id leaves the column alone.
update_status(row, status, error_message, provider_message_id) ==
    [row EXCEPT
        !.status = status,
        !.sent_at = IF status = "sent" THEN TRUE ELSE @,
        !.delivered_at = IF status = "delivered" THEN TRUE ELSE @,
        !.failed_at = IF status = "failed" THEN TRUE ELSE @,
        !.error = IF error_message # "null" THEN error_message ELSE @,
        !.pmid = IF provider_message_id # NoPmid THEN provider_message_id ELSE @]

\* a faulty increment_attempt that leaves the count alone (C11 fails of it)
increment_attempt_lost(row) ==
    row

\* a faulty increment_attempt that counts every attempt twice (C12 fails of it)
increment_attempt_twice(row) ==
    [row EXCEPT !.attempt_count = @ + 2]

\* EmailDeliveryRepository.increment_attempt
increment_attempt(row) ==
    [row EXCEPT !.attempt_count = @ + 1]

\* the row of the current run of job n
RowOf(n) == <<n, deliveries[n]>>

\* the committed rows of notification n
RowsOf(n) == {r \in RowIds : r[1] = n /\ db[r].status # "absent"}

(* ---------------- the circuit breaker ---------------- *)
InitBreaker ==
    [state |-> "closed", failure_count |-> 0, last_failure_time |-> NoTime]

\* CircuitBreaker._should_attempt_reset
should_attempt_reset(b, t) ==
    /\ b.last_failure_time # NoTime
    /\ t >= b.last_failure_time + CIRCUIT_BREAKER_TIMEOUT

\* a faulty admission check that lets every call through (C16 fails of it)
admitted_always(b, t) ==
    TRUE

\* CircuitBreaker.call_async up to `await func()`: TRUE when the call is let
\* through, FALSE when CircuitBreakerError is raised.
admitted(b, t) ==
    b.state = "open" => should_attempt_reset(b, t)

\* the breaker after the admission check of call_async
after_admission(b, t) ==
    IF b.state = "open" /\ should_attempt_reset(b, t)
        THEN [b EXCEPT !.state = "half_open"]
        ELSE b

\* a faulty _on_success that closes the breaker and keeps the count (C38
\* fails of it)
on_success_keeps_count(b) ==
    [b EXCEPT !.state = "closed"]

\* CircuitBreaker._on_success
on_success(b) ==
    [b EXCEPT !.failure_count = 0, !.state = "closed"]

\* a faulty _on_failure that opens one failure late (C15 fails of it)
on_failure_late(b, t) ==
    [b EXCEPT
        !.failure_count = @ + 1,
        !.last_failure_time = t,
        !.state = IF b.failure_count + 1 > CIRCUIT_BREAKER_FAIL_MAX
                    THEN "open" ELSE @]

\* CircuitBreaker._on_failure
on_failure(b, t) ==
    [b EXCEPT
        !.failure_count = @ + 1,
        !.last_failure_time = t,
        !.state = IF b.failure_count + 1 >= CIRCUIT_BREAKER_FAIL_MAX
                    THEN "open" ELSE @]

\* call_async after `await func()`: the function returned or raised
after_call(b, raised, t) ==
    IF raised THEN on_failure(b, t) ELSE on_success(b)

(* ---------------- gateway status reporter ---------------- *)
\* EmailService._update_gateway_status: status_mapping.get(status, "pending")
status_mapping(status) ==
    CASE status = "sent" -> "delivered"
      [] status = "delivered" -> "delivered"
      [] status = "failed" -> "failed"
      [] status = "pending" -> "pending"
      [] status = "skipped" -> "pending"
      [] status = "bounced" -> "failed"
      [] OTHER -> "pending"

\* the PATCH the email worker sends for notification n
update_gateway_status(n, status) ==
    [gateway EXCEPT ![n] = status_mapping(status)]

(* ---------------- queue consumer ---------------- *)
Idle == [pc |-> "idle", attempt |-> 0, ret |-> "none"]

\* a faulty context exit with the two outcomes exchanged (C31 fails of it)
process_exit_swapped(ret) ==
    IF ret = "ok" THEN "rejected" ELSE "acked"

\* a faulty context exit that acknowledges whatever happened (C21 fails of it)
process_exit_always_ack(ret) ==
    "acked"

\* a faulty context exit that requeues on an exception (C30 fails of it)
process_exit_requeue(ret) ==
    IF ret = "ok" THEN "acked" ELSE "ready"

\* `async with message.process()` as the consumers use it (no arguments, so
\* requeue=False): the context acknowledges when its body ends without an
\* exception and rejects without requeue when an exception leaves it; the
\* queue's dead-letter arguments then route the message to the DLQ.
process_exit(ret) ==
    IF ret = "ok" THEN "acked" ELSE "rejected"

\* a faulty stop condition that allows one attempt more (C5 fails of it)
stop_after_attempt_late(attempt) ==
    attempt >= MAX_RETRY_ATTEMPTS + 1

\* tenacity stop_after_attempt(settings.MAX_RETRY_ATTEMPTS)
stop_after_attempt(attempt) ==
    attempt >= MAX_RETRY_ATTEMPTS

\* messages delivered to the consumer and not yet settled (set_qos prefetch)
InFlight == Cardinality({m \in Msgs : broker[m] = "unacked"})

(* ======================= the email worker ======================= *)

\* EmailConsumer._process_message up to the call of _handle_email: the broker
\* hands the message over, the body is decoded and validated.
Receive(n) ==
    /\ UNCHANGED <<prefsVars, routeVars, peerVars>>
    /\ worker = "email"
    /\ broker[n] = "ready"
    /\ InFlight < MaxInFlight
    /\ broker' = [broker EXCEPT ![n] = "unacked"]
    /\ deliveries' = [deliveries EXCEPT ![n] = @ + 1]
    /\ calls' = [calls EXCEPT ![n] = 0]
    /\ txn' = [txn EXCEPT ![n] = Absent]
    /\ CASE body[n] = "badjson" ->
              \* json.JSONDecodeError is caught and swallowed
              /\ h' = [h EXCEPT ![n] = [pc |-> "settle", attempt |-> 0, ret |-> "ok"]]
              /\ path' = [path EXCEPT ![n] = "badjson"]
         [] body[n] = "badschema" ->
              \* QueueMessage(**body) raises; re-raised by `except Exception`
              /\ h' = [h EXCEPT ![n] = [pc |-> "settle", attempt |-> 0, ret |-> "raise"]]
              /\ path' = [path EXCEPT ![n] = "badschema"]
         [] body[n] = "badutf8" ->
              \* message.body.decode() raises UnicodeDecodeError, which is not
              \* a JSONDecodeError; re-raised by `except Exception`
              /\ h' = [h EXCEPT ![n] = [pc |-> "settle", attempt |-> 0, ret |-> "raise"]]
              /\ path' = [path EXCEPT ![n] = "badutf8"]
         [] OTHER ->
              /\ h' = [h EXCEPT ![n] = [pc |-> "prefs", attempt |-> 0, ret |-> "none"]]
              /\ path' = [path EXCEPT ![n] = "none"]
    /\ UNCHANGED <<worker, body, db, gateway, breaker, now, caller, consecFails, crashes, webhooks>>

\* process_email_notification steps 1 and 2: preferences, channel gate,
\* address.  p is what get_user_preferences returned.
Preferences(n) ==
    /\ UNCHANGED <<prefsVars, routeVars, peerVars>>
    /\ worker = "email"
    /\ h[n].pc = "prefs"
    /\ \E p \in {"none", "disabled", "noaddr", "ok"} :
        CASE p = "none" ->
               /\ gateway' = update_gateway_status(n, "failed")
               /\ h' = [h EXCEPT ![n].pc = "exit", ![n].ret = "false"]
               /\ path' = [path EXCEPT ![n] = "noprefs"]
          [] p = "disabled" ->
               /\ gateway' = update_gateway_status(n, "skipped")
               /\ h' = [h EXCEPT ![n].pc = "exit", ![n].ret = "true"]
               /\ path' = [path EXCEPT ![n] = "skipped"]
          [] p = "noaddr" ->
               /\ gateway' = update_gateway_status(n, "failed")
               /\ h' = [h EXCEPT ![n].pc = "exit", ![n].ret = "false"]
               /\ path' = [path EXCEPT ![n] = "noaddr"]
          [] OTHER ->
               /\ h' = [h EXCEPT ![n].pc = "render"]
               /\ UNCHANGED <<gateway, path>>
    /\ UNCHANGED <<worker, body, broker, deliveries, txn, db, calls, breaker,
                   now, caller, consecFails, crashes, webhooks>>

\* process_email_notification step 3: render_template returned a rendering
\* or None.
Render(n) ==
    /\ UNCHANGED <<prefsVars, routeVars, peerVars>>
    /\ worker = "email"
    /\ h[n].pc = "render"
    /\ \E rendered \in BOOLEAN :
        IF rendered
            THEN /\ h' = [h EXCEPT ![n].pc = "create"]
                 /\ UNCHANGED <<gateway, path>>
            ELSE /\ gateway' = update_gateway_status(n, "failed")
                 /\ h' = [h EXCEPT ![n].pc = "exit", ![n].ret = "false"]
                 /\ path' = [path EXCEPT ![n] = "render_failed"]
    /\ UNCHANGED <<worker, body, broker, deliveries, txn, db, calls, breaker,
                   now, caller, consecFails, crashes, webhooks>>

\* EmailDeliveryRepository.create: session.add + flush of a new row.  The row
\* is in the handler's open transaction, not yet committed.
create(n) ==
    [txn EXCEPT ![n] = NewDelivery]

\* process_email_notification step 4
Create(n) ==
    /\ UNCHANGED <<prefsVars, routeVars, peerVars>>
    /\ worker = "email"
    /\ h[n].pc = "create"
    /\ txn' = create(n)
    /\ h' = [h EXCEPT ![n].pc = "send", ![n].attempt = 1]
    /\ UNCHANGED <<worker, body, broker, deliveries, db, calls, path, gateway,
                   breaker, now, caller, consecFails, crashes, webhooks>>

\* _send_email_with_retry, one attempt up to the provider call:
\* increment_attempt, then the admission check of the provider breaker.
SendStart(n) ==
    /\ UNCHANGED <<prefsVars, routeVars, peerVars>>
    /\ worker = "email"
    /\ h[n].pc = "send"
    /\ IF admitted(breaker, now)
        THEN /\ breaker' = after_admission(breaker, now)
             /\ txn' = [txn EXCEPT ![n] = increment_attempt(@)]
             /\ calls' = [calls EXCEPT ![n] = @ + 1]
             /\ h' = [h EXCEPT ![n].pc = "call"]
             /\ UNCHANGED path
        ELSE \* except CircuitBreakerError: failed, return False
             /\ txn' = [txn EXCEPT ![n] =
                    update_status(increment_attempt(@), "failed", "unavailable", NoPmid)]
             /\ h' = [h EXCEPT ![n].pc = "exit", ![n].ret = "false"]
             /\ path' = [path EXCEPT ![n] = "breaker_open"]
             /\ UNCHANGED <<breaker, calls>>
    /\ UNCHANGED <<worker, body, broker, deliveries, db, gateway, now, caller,
                   consecFails, crashes, webhooks>>

\* _send_email_with_retry, the provider call returns.  The adapters catch
\* every exception and return SendResult, so `await func()` never raises and
\* the breaker records a success whatever the result says.
SendReturn(n) ==
    /\ UNCHANGED <<prefsVars, routeVars, peerVars>>
    /\ worker = "email"
    /\ h[n].pc = "call"
    /\ breaker' = after_call(breaker, FALSE, now)
    /\ \/  \* result.success: sent, gateway told, return True
            /\ txn' = [txn EXCEPT ![n] = update_status(@, "sent", "null", RowOf(n))]
            /\ gateway' = update_gateway_status(n, "sent")
            /\ h' = [h EXCEPT ![n].pc = "exit", ![n].ret = "true"]
            /\ path' = [path EXCEPT ![n] = "sent"]
            /\ consecFails' = 0
       \/   \* not result.success: failed with result.error, raise; tenacity
            \* retries on any exception or gives up
            /\ \E error \in ProviderErrors :
                  txn' = [txn EXCEPT ![n] = update_status(@, "failed", error, NoPmid)]
            /\ consecFails' = IF consecFails < CIRCUIT_BREAKER_FAIL_MAX
                                THEN consecFails + 1 ELSE consecFails
            /\ IF stop_after_attempt(h[n].attempt)
                THEN \* RetryError reaches process_email_notification's handler
                     /\ gateway' = update_gateway_status(n, "failed")
                     /\ h' = [h EXCEPT ![n].pc = "exit", ![n].ret = "false"]
                     /\ path' = [path EXCEPT ![n] = "send_failed"]
                ELSE /\ h' = [h EXCEPT ![n].pc = "send", ![n].attempt = @ + 1]
                     /\ UNCHANGED <<gateway, path>>
    /\ UNCHANGED <<worker, body, broker, deliveries, db, calls, now, caller, crashes, webhooks>>

\* a faulty session exit that commits nothing (C6 fails of it)
commit_nothing(n) ==
    db

\* get_db_session leaving its `async with` body: session.commit().  What the
\* handler flushed becomes the committed row of this run.
commit(n) ==
    IF txn[n].status = "absent" THEN db
    ELSE [db EXCEPT ![RowOf(n)] = txn[n]]

\* EmailConsumer._handle_email returns: the session commits, then
\* _process_message turns a False result into an exception.
HandleEmailExit(n) ==
    /\ UNCHANGED <<prefsVars, routeVars, peerVars>>
    /\ worker = "email"
    /\ h[n].pc = "exit"
    /\ db' = commit(n)
    /\ txn' = [txn EXCEPT ![n] = Absent]
    /\ h' = [h EXCEPT ![n].pc = "settle",
                      ![n].ret = IF h[n].ret = "true" THEN "ok" ELSE "raise"]
    /\ UNCHANGED <<worker, body, broker, deliveries, calls, path, gateway,
                   breaker, now, caller, consecFails, crashes, webhooks>>

\* the message.process() context of _process_message exits
Settle(n) ==
    /\ UNCHANGED <<prefsVars, routeVars, peerVars>>
    /\ worker = "email"
    /\ h[n].pc = "settle"
    /\ broker' = [broker EXCEPT ![n] = process_exit(h[n].ret)]
    /\ h' = [h EXCEPT ![n] = Idle]
    /\ UNCHANGED <<worker, body, deliveries, txn, db, calls, path, gateway,
                   breaker, now, caller, consecFails, crashes, webhooks>>

\* a faulty lookup that takes the empty string for NULL (C25 fails of it)
get_by_provider_message_id_null_as_empty(table, pmid) ==
    {r \in RowIds : /\ table[r].status # "absent"
                    /\ \/ table[r].pmid = pmid
                       \/ pmid = EmptyPmid /\ table[r].pmid = NoPmid}

\* EmailDeliveryRepository.get_by_provider_message_id: the rows that
\* `WHERE provider_message_id = :pmid` selects; a NULL column equals nothing.
get_by_provider_message_id(table, pmid) ==
    {r \in RowIds : /\ table[r].status # "absent"
                    /\ table[r].pmid # NoPmid
                    /\ table[r].pmid = pmid}

\* a faulty mapping with bounce and dropped exchanged (C26 fails of it)
event_status_swapped(event) ==
    CASE event = "delivered" -> "delivered"
      [] event = "bounce" -> "failed"
      [] event = "dropped" -> "bounced"
      [] event = "deferred" -> "pending"
      [] OTHER -> "pending"

\* handle_webhook: status_mapping.get(event, "pending")
event_status(event) ==
    CASE event = "delivered" -> "delivered"
      [] event = "bounce" -> "bounced"
      [] event = "dropped" -> "failed"
      [] event = "deferred" -> "pending"
      [] OTHER -> "pending"

\* EmailService.handle_webhook for one event of the batch, in the route's
\* session: scalar_one_or_none raises on several matches (caught: False).
Webhook(pmid, event) ==
    /\ UNCHANGED <<prefsVars, routeVars, peerVars>>
    /\ worker = "email"
    /\ webhooks < MaxWebhooks
    /\ webhooks' = webhooks + 1
    /\ LET found == get_by_provider_message_id(db, pmid)
           new_status == event_status(event)
       IN /\ Cardinality(found) = 1
          /\ LET r == CHOOSE x \in found : TRUE
             IN /\ db' = [db EXCEPT ![r] = update_status(@, new_status, "null", NoPmid)]
                /\ gateway' = update_gateway_status(r[1], new_status)
    /\ UNCHANGED <<worker, body, broker, deliveries, h, txn, calls, path,
                   breaker, now, caller, consecFails, crashes>>

\* The worker process stops (start_consuming cancelled, or killed): handler
\* tasks and their open transactions are lost, the in-process breaker is
\* rebuilt, and the broker redelivers every unacknowledged message.
Crash ==
    /\ UNCHANGED <<prefsVars, routeVars, peerVars>>
    /\ worker \in {"email", "push"}
    /\ crashes < MaxCrashes
    /\ \E n \in Msgs : broker[n] = "unacked"
    /\ crashes' = crashes + 1
    /\ broker' = [n \in Msgs |-> IF broker[n] = "unacked" THEN "ready" ELSE broker[n]]
    /\ path' = [n \in Msgs |-> IF broker[n] = "unacked" THEN "crashed" ELSE path[n]]
    /\ h' = [n \in Msgs |-> Idle]
    /\ txn' = [n \in Msgs |-> Absent]
    /\ breaker' = InitBreaker
    /\ consecFails' = 0
    /\ calls' = [n \in Msgs |-> IF broker[n] = "unacked" THEN 0 ELSE calls[n]]
    /\ UNCHANGED <<worker, body, deliveries, db, gateway, now, caller, webhooks>>

Events == {"delivered", "bounce", "dropped", "deferred"}

NextEmail ==
    \/ \E n \in Msgs : Receive(n)
    \/ \E n \in Msgs : Preferences(n)
    \/ \E n \in Msgs : Render(n)
    \/ \E n \in Msgs : Create(n)
    \/ \E n \in Msgs : SendStart(n)
    \/ \E n \in Msgs : SendReturn(n)
    \/ \E n \in Msgs : HandleEmailExit(n)
    \/ \E n \in Msgs : Settle(n)
    \/ \E pmid \in PMIDs, event \in Events : Webhook(pmid, event)
    \/ Crash

(* ======================= the push worker ======================= *)

\* a faulty reporter that sends nothing (C29 fails of it)
push_update_gateway_status_silent(n, status) ==
    gateway

\* PushService._update_gateway_status: the status is sent as it is
push_update_gateway_status(n, status) ==
    [gateway EXCEPT ![n] = status]

\* the payload POST /send publishes: its keys and the type of its priority
\* (notification.priority or "normal", a string)
send_payload ==
    [keys |-> {"notification_id", "user_id", "device_token", "title", "body",
               "data", "priority", "badge"},
     priority |-> "str"]

\* NotificationMessage(**data): notification_id, user_id and variables are
\* required, priority is an int when given
NotificationMessage_valid(data) ==
    /\ {"notification_id", "user_id", "variables"} \subseteq data.keys
    /\ "priority" \in data.keys => data.priority = "int"

\* PushConsumer.process_message up to process_notification: decode and
\* validate; both failures are re-raised inside message.process().
PushReceive(n) ==
    /\ UNCHANGED <<prefsVars, routeVars, peerVars>>
    /\ worker = "push"
    /\ broker[n] = "ready"
    /\ InFlight < MaxInFlight
    /\ broker' = [broker EXCEPT ![n] = "unacked"]
    /\ deliveries' = [deliveries EXCEPT ![n] = @ + 1]
    /\ calls' = [calls EXCEPT ![n] = 0]
    /\ CASE body[n] = "badjson" ->
              /\ h' = [h EXCEPT ![n] = [pc |-> "settle", attempt |-> 0, ret |-> "raise"]]
              /\ path' = [path EXCEPT ![n] = "badjson"]
         [] body[n] = "badschema" ->
              /\ h' = [h EXCEPT ![n] = [pc |-> "settle", attempt |-> 0, ret |-> "raise"]]
              /\ path' = [path EXCEPT ![n] = "badschema"]
         [] body[n] = "badutf8" ->
              /\ h' = [h EXCEPT ![n] = [pc |-> "settle", attempt |-> 0, ret |-> "raise"]]
              /\ path' = [path EXCEPT ![n] = "badutf8"]
         [] body[n] = "published" /\ ~NotificationMessage_valid(send_payload) ->
              /\ h' = [h EXCEPT ![n] = [pc |-> "settle", attempt |-> 0, ret |-> "raise"]]
              /\ path' = [path EXCEPT ![n] = "badschema"]
         [] OTHER ->
              /\ h' = [h EXCEPT ![n] = [pc |-> "prefs", attempt |-> 0, ret |-> "none"]]
              /\ path' = [path EXCEPT ![n] = "none"]
    /\ UNCHANGED <<worker, body, txn, db, gateway, breaker, now, caller,
                   consecFails, crashes, webhooks>>

\* process_notification steps 1 and 2: preferences (an HTTP error is raised
\* on), the push_enabled gate, the push token (an HTTP error gives None).
PushPreferences(n) ==
    /\ UNCHANGED <<prefsVars, routeVars, peerVars>>
    /\ worker = "push"
    /\ h[n].pc = "prefs"
    /\ \E p \in {"error", "disabled", "notoken", "ok"} :
        CASE p = "error" ->
               /\ gateway' = push_update_gateway_status(n, "failed")
               /\ h' = [h EXCEPT ![n].pc = "settle", ![n].ret = "raise"]
               /\ path' = [path EXCEPT ![n] = "noprefs"]
          [] p = "disabled" ->
               /\ gateway' = push_update_gateway_status(n, "skipped")
               /\ h' = [h EXCEPT ![n].pc = "settle", ![n].ret = "ok"]
               /\ path' = [path EXCEPT ![n] = "skipped"]
          [] p = "notoken" ->
               /\ gateway' = push_update_gateway_status(n, "failed")
               /\ h' = [h EXCEPT ![n].pc = "settle", ![n].ret = "ok"]
               /\ path' = [path EXCEPT ![n] = "noaddr"]
          [] OTHER ->
               /\ h' = [h EXCEPT ![n].pc = "render"]
               /\ UNCHANGED <<gateway, path>>
    /\ UNCHANGED <<worker, body, broker, deliveries, txn, db, calls, breaker,
                   now, caller, consecFails, crashes, webhooks>>

\* process_notification step 3: the template check and _render_template
\* (an HTTP error is raised on).
PushRender(n) ==
    /\ UNCHANGED <<prefsVars, routeVars, peerVars>>
    /\ worker = "push"
    /\ h[n].pc = "render"
    /\ IF body[n] = "notemplate"
        THEN /\ gateway' = push_update_gateway_status(n, "failed")
             /\ h' = [h EXCEPT ![n].pc = "settle", ![n].ret = "ok"]
             /\ path' = [path EXCEPT ![n] = "notemplate"]
        ELSE \E rendered \in BOOLEAN :
            IF rendered
                THEN /\ h' = [h EXCEPT ![n].pc = "send", ![n].attempt = 1]
                     /\ UNCHANGED <<gateway, path>>
                ELSE /\ gateway' = push_update_gateway_status(n, "failed")
                     /\ h' = [h EXCEPT ![n].pc = "settle", ![n].ret = "raise"]
                     /\ path' = [path EXCEPT ![n] = "render_failed"]
    /\ UNCHANGED <<worker, body, broker, deliveries, txn, db, calls, breaker,
                   now, caller, consecFails, crashes, webhooks>>

\* _send_push_with_retry, one attempt: the provider is called through the
\* breaker.  No row of push_deliveries has been written yet.
PushSendStart(n) ==
    /\ UNCHANGED <<prefsVars, routeVars, peerVars>>
    /\ worker = "push"
    /\ h[n].pc = "send"
    /\ calls' = [calls EXCEPT ![n] = @ + 1]
    /\ h' = [h EXCEPT ![n].pc = "call"]
    /\ UNCHANGED <<worker, body, broker, deliveries, txn, db, path, gateway,
                   breaker, now, caller, consecFails, crashes, webhooks>>

\* The attempt ends: FCMProvider.send returns a SendResult (success or not,
\* it catches every exception), or the breaker wrapper raises and tenacity
\* (reraise off) retries until stop_after_attempt, then raises RetryError.
PushSendReturn(n) ==
    /\ UNCHANGED <<prefsVars, routeVars, peerVars>>
    /\ worker = "push"
    /\ h[n].pc = "call"
    /\ \E out \in {"ok", "fail", "raise"} :
        CASE out = "ok" ->
               /\ h' = [h EXCEPT ![n].pc = "persist", ![n].ret = "true"]
               /\ UNCHANGED <<gateway, path>>
          [] out = "fail" ->
               /\ h' = [h EXCEPT ![n].pc = "persist", ![n].ret = "false"]
               /\ UNCHANGED <<gateway, path>>
          [] OTHER ->
               IF stop_after_attempt(h[n].attempt)
                 THEN /\ gateway' = push_update_gateway_status(n, "failed")
                      /\ h' = [h EXCEPT ![n].pc = "settle", ![n].ret = "raise"]
                      /\ path' = [path EXCEPT ![n] = "send_raised"]
                 ELSE /\ h' = [h EXCEPT ![n].pc = "send", ![n].attempt = @ + 1]
                      /\ UNCHANGED <<gateway, path>>
    /\ UNCHANGED <<worker, body, broker, deliveries, txn, db, calls, breaker,
                   now, caller, consecFails, crashes, webhooks>>

\* process_notification steps 5 and 6: the PushDelivery row is added and
\* committed with the result of the send, then the gateway is told.
PushPersist(n) ==
    /\ UNCHANGED <<prefsVars, routeVars, peerVars>>
    /\ worker = "push"
    /\ h[n].pc = "persist"
    /\ LET sent == h[n].ret = "true"
           row == [NewDelivery EXCEPT
                     !.status = IF sent THEN "sent" ELSE "failed",
                     !.pmid = IF sent THEN RowOf(n) ELSE NoPmid,
                     !.error = IF sent THEN "null" ELSE "send",
                     !.sent_at = sent]
       IN /\ db' = [db EXCEPT ![RowOf(n)] = row]
          /\ gateway' = push_update_gateway_status(n, IF sent THEN "sent" ELSE "failed")
          /\ path' = [path EXCEPT ![n] = IF sent THEN "sent" ELSE "send_failed"]
    /\ h' = [h EXCEPT ![n].pc = "settle", ![n].ret = "ok"]
    /\ UNCHANGED <<worker, body, broker, deliveries, txn, calls, breaker, now,
                   caller, consecFails, crashes, webhooks>>

\* the message.process() context of process_message exits
PushSettle(n) ==
    /\ UNCHANGED <<prefsVars, routeVars, peerVars>>
    /\ worker = "push"
    /\ h[n].pc = "settle"
    /\ broker' = [broker EXCEPT ![n] = process_exit(h[n].ret)]
    /\ h' = [h EXCEPT ![n] = Idle]
    /\ UNCHANGED <<worker, body, deliveries, txn, db, calls, path, gateway,
                   breaker, now, caller, consecFails, crashes, webhooks>>

NextPush ==
    \/ \E n \in Msgs : PushReceive(n)
    \/ \E n \in Msgs : PushPreferences(n)
    \/ \E n \in Msgs : PushRender(n)
    \/ \E n \in Msgs : PushSendStart(n)
    \/ \E n \in Msgs : PushSendReturn(n)
    \/ \E n \in Msgs : PushPersist(n)
    \/ \E n \in Msgs : PushSettle(n)
    \/ Crash

(* ============== a breaker called by concurrent tasks ============== *)

\* a task enters CircuitBreaker.call_async: the admission check, which runs
\* without suspension up to `await func()`
CallStart(c) ==
    /\ UNCHANGED <<prefsVars, routeVars, peerVars>>
    /\ worker = "breaker"
    /\ caller[c] \in {"idle", "failed_fast"}
    /\ IF admitted(breaker, now)
        THEN /\ breaker' = after_admission(breaker, now)
             /\ caller' = [caller EXCEPT ![c] =
                    IF breaker.state = "closed" THEN "in_call" ELSE "probe"]
        ELSE \* raise CircuitBreakerError: func is not called
             /\ caller' = [caller EXCEPT ![c] = "failed_fast"]
             /\ UNCHANGED breaker
    /\ UNCHANGED <<worker, body, broker, deliveries, h, txn, db, calls, path,
                   gateway, now, consecFails, crashes, webhooks>>

\* `await func()` completes in task c: _on_success or _on_failure
CallReturn(c) ==
    /\ UNCHANGED <<prefsVars, routeVars, peerVars>>
    /\ worker = "breaker"
    /\ caller[c] \in {"in_call", "probe"}
    /\ \E raised \in BOOLEAN : breaker' = after_call(breaker, raised, now)
    /\ caller' = [caller EXCEPT ![c] = "idle"]
    /\ UNCHANGED <<worker, body, broker, deliveries, h, txn, db, calls, path,
                   gateway, now, consecFails, crashes, webhooks>>

\* datetime.utcnow() advances
Tick ==
    /\ UNCHANGED <<prefsVars, routeVars, peerVars>>
    /\ worker \in {"breaker", "prefs", "email", "push", "client"}
    /\ now + TickSeconds <= MaxTime
    /\ now' = now + TickSeconds
    /\ UNCHANGED <<worker, body, broker, deliveries, h, txn, db, calls, path,
                   gateway, breaker, caller, consecFails, crashes, webhooks>>

NextBreaker ==
    \/ \E c \in Callers : CallStart(c)
    \/ \E c \in Callers : CallReturn(c)
    \/ Tick

(* ============== the preference lookup of the email worker ============== *)

IdleLookup ==
    [pc |-> "idle", user |-> "u1", at |-> 0, http |-> 0, result |-> "none",
     source |-> "none", outcome |-> "none", reported |-> "none"]

\* no key user_prefs:<u> in Redis
NoEntry == [value |-> "none", expires |-> 0]

\* cache.get: the entry of u while its TTL has not run out
cache_get(u) ==
    IF cache[u].value # "none" /\ now < cache[u].expires
        THEN cache[u].value ELSE "none"

\* cache.set(key, value, ttl): redis SETEX
cache_set(u, value, ttl) ==
    [cache EXCEPT ![u] = [value |-> value, expires |-> now + ttl]]

\* no key user_preferences:<u> in the user service's cache, and no update
\* of u's preferences yet
NoStore == [cached |-> "none", expires |-> 0, updated |-> NoTime, updates |-> 0]

\* InternalUserPreferenceView.get: the cached preferences of u while their
\* TTL has not run out, else the row of the database
view_get(u) ==
    IF userStore[u].cached # "none" /\ now < userStore[u].expires
        THEN userStore[u].cached ELSE userService[u]

\* the user service's cache after InternalUserPreferenceView.get: on a
\* miss the row read is cached for an hour
view_cache(u) ==
    IF userStore[u].cached # "none" /\ now < userStore[u].expires
        THEN userStore
        ELSE [userStore EXCEPT ![u].cached = userService[u],
                               ![u].expires = now + USER_CACHE_TTL]

\* a faulty default that has the channel disabled (C18 fails of it)
default_preferences_disabled == "disabled"

\* what get_user_preferences returns on CircuitBreakerError:
\* UserPreferences(email_enabled=True, push_enabled=True), email None
default_preferences == "noaddr"

\* process_email_notification steps 1 and 2 on the preferences returned:
\* how the job goes on and the status given to _update_gateway_status
channel_gate(p) ==
    CASE p = "none" -> [outcome |-> "noprefs", status |-> "failed"]
      [] p = "disabled" -> [outcome |-> "skipped", status |-> "skipped"]
      [] p = "noaddr" -> [outcome |-> "noaddr", status |-> "failed"]
      [] OTHER -> [outcome |-> "ok", status |-> "none"]

\* a faulty handler of CircuitBreakerError that caches what it returns
on_circuit_open_cached(u) ==
    [result |-> default_preferences,
     cache |-> cache_set(u, default_preferences, CACHE_TTL)]

\* except CircuitBreakerError in get_user_preferences: the default
\* preferences are returned and the cache is left as it is
on_circuit_open(u) ==
    [result |-> default_preferences, cache |-> cache]

\* get_user_preferences(u) up to the HTTP request: the cache, then the
\* admission check of user_service_breaker
LookupStart(t, u) ==
    /\ UNCHANGED <<routeVars, peerVars>>
    /\ worker = "prefs"
    /\ lookup[t].pc = "idle"
    /\ IF cache_get(u) # "none"
        THEN /\ lookup' = [lookup EXCEPT ![t] = [IdleLookup EXCEPT
                    !.pc = "done", !.user = u, !.at = now,
                    !.result = cache_get(u), !.source = "cache"]]
             /\ UNCHANGED <<breaker, cache>>
        ELSE IF admitted(breaker, now)
        THEN /\ breaker' = after_admission(breaker, now)
             /\ lookup' = [lookup EXCEPT ![t] = [IdleLookup EXCEPT
                    !.pc = "http", !.user = u, !.at = now, !.http = 1]]
             /\ UNCHANGED cache
        ELSE \* except CircuitBreakerError: the default preferences
             /\ lookup' = [lookup EXCEPT ![t] = [IdleLookup EXCEPT
                    !.pc = "done", !.user = u, !.at = now,
                    !.result = on_circuit_open(u).result,
                    !.source = "default"]]
             /\ cache' = on_circuit_open(u).cache
             /\ UNCHANGED breaker
    /\ UNCHANGED <<worker, body, broker, deliveries, h, txn, db, calls, path,
                   gateway, now, caller, consecFails, crashes, webhooks,
                   userService, userStore>>

\* fetch_preferences ends: the user service answers with the preferences
\* its view returns, answers without data, or the request fails (timeout,
\* network error, HTTP error status), which raises through call_async and
\* is caught outside it.
LookupReturn(t) ==
    /\ UNCHANGED <<routeVars, peerVars>>
    /\ worker = "prefs"
    /\ lookup[t].pc = "http"
    /\ \E answer \in {"data", "nodata", "error"} :
        CASE answer = "data" ->
               /\ breaker' = after_call(breaker, FALSE, now)
               /\ cache' = cache_set(lookup[t].user, view_get(lookup[t].user), CACHE_TTL)
               /\ userStore' = view_cache(lookup[t].user)
               /\ lookup' = [lookup EXCEPT ![t].pc = "done",
                      ![t].result = view_get(lookup[t].user),
                      ![t].source = "service"]
          [] answer = "nodata" ->
               /\ breaker' = after_call(breaker, FALSE, now)
               /\ lookup' = [lookup EXCEPT ![t].pc = "done", ![t].source = "service"]
               /\ UNCHANGED <<cache, userStore>>
          [] OTHER ->
               /\ breaker' = after_call(breaker, TRUE, now)
               /\ lookup' = [lookup EXCEPT ![t].pc = "done", ![t].source = "error"]
               /\ UNCHANGED <<cache, userStore>>
    /\ UNCHANGED <<worker, body, broker, deliveries, h, txn, db, calls, path,
                   gateway, now, caller, consecFails, crashes, webhooks,
                   userService>>

\* process_email_notification steps 1 and 2 with what the lookup returned
Gate(t) ==
    /\ UNCHANGED <<routeVars, peerVars>>
    /\ worker = "prefs"
    /\ lookup[t].pc = "done"
    /\ LET g == channel_gate(lookup[t].result)
       IN lookup' = [lookup EXCEPT ![t] = [IdleLookup EXCEPT
              !.outcome = g.outcome,
              !.reported = IF g.status = "none" THEN "none"
                           ELSE status_mapping(g.status)]]
    /\ UNCHANGED <<worker, body, broker, deliveries, h, txn, db, calls, path,
                   gateway, breaker, now, caller, consecFails, crashes, webhooks,
                   cache, userService, userStore>>

NextPrefs ==
    \/ \E t \in Handlers, u \in Users : LookupStart(t, u)
    \/ \E t \in Handlers : LookupReturn(t)
    \/ \E t \in Handlers : Gate(t)
    \/ Tick

\* UserPreferenceView.patch: the row is saved and the key
\* user_preferences:<u> deleted from the user service's cache
PatchPreferences(u, p) ==
    /\ UNCHANGED <<routeVars, peerVars>>
    /\ worker = "prefs"
    /\ userStore[u].updates < MaxUpdates
    /\ p # userService[u]
    /\ userService' = [userService EXCEPT ![u] = p]
    /\ userStore' = [userStore EXCEPT ![u] = [cached |-> "none", expires |-> 0,
            updated |-> now, updates |-> userStore[u].updates + 1]]
    /\ UNCHANGED <<worker, body, broker, deliveries, h, txn, db, calls, path,
                   gateway, breaker, now, caller, consecFails, crashes, webhooks,
                   lookup, cache>>

\* UserPreferenceAdmin (a ModelAdmin): the row is saved from the admin
\* site; nothing deletes the cached preferences
AdminSave(u, p) ==
    /\ UNCHANGED <<routeVars, peerVars>>
    /\ worker = "prefs"
    /\ userStore[u].updates < MaxUpdates
    /\ p # userService[u]
    /\ userService' = [userService EXCEPT ![u] = p]
    /\ userStore' = [userStore EXCEPT ![u].updated = now,
                                      ![u].updates = userStore[u].updates + 1]
    /\ UNCHANGED <<worker, body, broker, deliveries, h, txn, db, calls, path,
                   gateway, breaker, now, caller, consecFails, crashes, webhooks,
                   lookup, cache>>

\* CACHE_TTL seconds pass
Wait ==
    /\ UNCHANGED <<prefsVars, routeVars, peerVars>>
    /\ worker = "prefs"
    /\ now + CACHE_TTL <= MaxWaits * CACHE_TTL
    /\ now' = now + CACHE_TTL
    /\ UNCHANGED <<worker, body, broker, deliveries, h, txn, db, calls, path,
                   gateway, breaker, caller, consecFails, crashes, webhooks>>

NextFresh ==
    \/ \E t \in Handlers, u \in Users : LookupStart(t, u)
    \/ \E t \in Handlers : LookupReturn(t)
    \/ \E t \in Handlers : Gate(t)
    \/ \E u \in Users, p \in PrefValues : PatchPreferences(u, p)
    \/ \E u \in Users, p \in PrefValues : AdminSave(u, p)
    \/ Wait

(* ================ the webhook route of the email worker ================ *)

\* message ids an event can name: those of sent messages, ids no row has
\* (rows never created), and the empty string
WebhookPmids == PMIDs \cup {EmptyPmid}

\* "open" stands for the events the mapping does not name
WebhookEvents == Events \cup {"open"}

\* an event handler can meet a database error in update_status
Faults == {"none", "db_error"}

NoEvent == [pmid |-> NoPmid, event |-> "none", fault |-> "none"]

NoResponse ==
    [status |-> 0, received |-> FALSE, processed |-> FALSE, message |-> <<0, 0>>]

\* no request: the route's session holds what is committed
IdleRoute ==
    [pc |-> "idle", len |-> 0, results |-> <<>>, processed_count |-> 0,
     last |-> NoEvent, session |-> [r \in RowIds |-> Absent],
     response |-> NoResponse]

\* a faulty counter that counts every event (C24 fails of it)
processed_count_all(count, success) ==
    count + 1

\* email_webhook: `if success: processed_count += 1`
processed_count(count, success) ==
    IF success THEN count + 1 ELSE count

\* POST /webhooks/email with a list of len events: the route opens its
\* session (Depends(get_db)) and sets processed_count to 0.
Post(len) ==
    /\ UNCHANGED <<prefsVars, peerVars>>
    /\ worker = "webhook"
    /\ route.pc \in {"idle", "done"}
    /\ webhooks + len <= MaxWebhooks
    /\ route' = [IdleRoute EXCEPT !.pc = "loop", !.len = len, !.session = db]
    /\ UNCHANGED <<worker, body, broker, deliveries, h, txn, db, calls, path,
                   gateway, breaker, now, caller, consecFails, crashes,
                   webhooks, report>>

\* one turn of `for event in events`: handle_webhook looks the row up,
\* updates it in the session and reports to the gateway; no row, several
\* rows or a database error make it return False, and the loop goes on.
HandleEvent(pmid, event, fault) ==
    /\ UNCHANGED <<prefsVars, peerVars>>
    /\ worker = "webhook"
    /\ route.pc = "loop"
    /\ Len(route.results) < route.len
    /\ webhooks' = webhooks + 1
    /\ LET found == get_by_provider_message_id(route.session, pmid)
           new_status == event_status(event)
           success == Cardinality(found) = 1 /\ fault = "none"
           this == [pmid |-> pmid, event |-> event, fault |-> fault]
       IN IF success
           THEN LET r == CHOOSE x \in found : TRUE
                IN /\ route' = [route EXCEPT
                          !.session[r] = update_status(@, new_status, "null", NoPmid),
                          !.results = Append(@, TRUE),
                          !.processed_count = processed_count(@, TRUE),
                          !.last = this]
                   /\ gateway' = update_gateway_status(r[1], new_status)
           ELSE /\ route' = [route EXCEPT
                          !.results = Append(@, FALSE),
                          !.processed_count = processed_count(@, FALSE),
                          !.last = this]
                /\ UNCHANGED gateway
    /\ UNCHANGED <<worker, body, broker, deliveries, h, txn, db, calls, path,
                   breaker, now, caller, consecFails, crashes, report>>

\* the loop is over: the route answers 200 with WebhookResponse (two
\* booleans and the counts in `message`), and get_db commits the session.
Respond ==
    /\ UNCHANGED <<prefsVars, peerVars>>
    /\ worker = "webhook"
    /\ route.pc = "loop"
    /\ Len(route.results) = route.len
    /\ route' = [route EXCEPT
          !.pc = "done",
          !.response = [status |-> 200, received |-> TRUE,
                        processed |-> route.processed_count = route.len,
                        message |-> <<route.processed_count, route.len>>]]
    /\ db' = route.session
    /\ UNCHANGED <<worker, body, broker, deliveries, h, txn, calls, path,
                   gateway, breaker, now, caller, consecFails, crashes,
                   webhooks, report>>

NextWebhook ==
    \/ \E len \in 0..MaxWebhooks : Post(len)
    \/ \E pmid \in WebhookPmids, event \in WebhookEvents, fault \in Faults :
          HandleEvent(pmid, event, fault)
    \/ Respond

(* ============ the status report to the notification gateway ============ *)

HTTP_MAX_RETRIES == 3

\* how the PATCH request ends
GatewayResponses == {"ok", "http_error", "timeout", "network_error"}

\* the places where an orchestrator reports: the channel is disabled, the
\* job cannot be sent (no address, no token, no template), the provider
\* took the message, the provider refused it (push), an exception reached
\* the `except` clause
ReportSites == {"skipped", "unsendable", "sent", "send_failed", "error"}

IdleReport ==
    [pc |-> "idle", site |-> "none", status |-> "none", attempt |-> 0,
     patches |-> 0, failed |-> FALSE, handling |-> FALSE]

\* a faulty client that lets the failure out (C28 fails of it)
update_notification_status_reraises(response) ==
    IF response = "ok" THEN "True" ELSE "raise"

\* ExternalAPIClient.update_notification_status: what the try/except makes
\* of the request's end, "breaker_open" being CircuitBreakerError
update_notification_status(response) ==
    IF response = "ok" THEN "True" ELSE "False"

\* PushService._update_gateway_status: the response status is not looked at
\* and an httpx.HTTPError (timeout, network error) is caught
push_patch(response) ==
    "None"

\* the orchestrator after _update_gateway_status ended with `result`: it
\* goes on to return what it was going to return; an exception would go to
\* the `except` clause, which reports failed, or out of it
after_report(n, result, failed) ==
    IF result = "raise"
        THEN IF report[n].handling
            THEN /\ report' = [report EXCEPT ![n].pc = "returned", ![n].failed = TRUE]
                 /\ h' = [h EXCEPT ![n].pc = "settle", ![n].ret = "raise"]
                 /\ txn' = [txn EXCEPT ![n] = Absent]
            ELSE /\ report' = [report EXCEPT ![n].pc = "call", ![n].failed = TRUE,
                        ![n].status = "failed", ![n].attempt = 0,
                        ![n].handling = TRUE]
                 /\ h' = [h EXCEPT ![n].ret = IF worker = "email" THEN "false" ELSE "raise"]
                 /\ UNCHANGED txn
        ELSE /\ report' = [report EXCEPT ![n].pc = "returned",
                    ![n].failed = @ \/ failed]
             /\ h' = [h EXCEPT ![n].pc = IF worker = "email" THEN "exit" ELSE "settle"]
             /\ UNCHANGED txn

\* A handler has taken message n and come to one of its reports.  The
\* email worker has its row flushed in the open session, the push worker
\* has committed its row before it reports.
ReportSite(n, site) ==
    /\ UNCHANGED <<prefsVars, peerVars>>
    /\ worker \in {"email", "push"}
    /\ worker = "email" => site # "send_failed"
    /\ broker[n] = "ready" /\ h[n].pc = "idle"
    /\ broker' = [broker EXCEPT ![n] = "unacked"]
    /\ deliveries' = [deliveries EXCEPT ![n] = @ + 1]
    /\ LET sent_row == [NewDelivery EXCEPT !.status = "sent", !.sent_at = TRUE,
                           !.attempt_count = IF worker = "email" THEN 1 ELSE 0,
                           !.pmid = <<n, deliveries'[n]>>]
           failed_row == [NewDelivery EXCEPT !.status = "failed",
                           !.error = IF worker = "email" THEN "transient" ELSE "send",
                           !.failed_at = worker = "email",
                           !.attempt_count = IF worker = "email"
                                               THEN MAX_RETRY_ATTEMPTS ELSE 0]
           row == CASE site = "sent" -> sent_row
                    [] site = "send_failed" -> failed_row
                    [] site = "error" /\ worker = "email" -> failed_row
                    [] OTHER -> Absent
           ret == IF worker = "email"
                    THEN (IF site \in {"skipped", "sent"} THEN "true" ELSE "false")
                    ELSE (IF site = "error" THEN "raise" ELSE "ok")
       IN /\ h' = [h EXCEPT ![n] = [pc |-> "report", attempt |-> 0, ret |-> ret]]
          /\ IF worker = "email"
                THEN txn' = [txn EXCEPT ![n] = row] /\ UNCHANGED db
                ELSE db' = [db EXCEPT ![<<n, deliveries'[n]>>] = row] /\ UNCHANGED txn
          /\ report' = [report EXCEPT ![n] = [IdleReport EXCEPT
                 !.pc = "call", !.site = site,
                 !.status = CASE site = "sent" -> "sent"
                              [] site = "skipped" -> "skipped"
                              [] OTHER -> "failed",
                 !.handling = site = "error"]]
    /\ path' = [path EXCEPT ![n] = site]
    /\ UNCHANGED <<worker, body, calls, gateway, breaker, now, caller,
                   consecFails, crashes, webhooks, route>>

\* _update_gateway_status builds the payload and sends the PATCH: the email
\* worker through gateway_breaker, which may refuse the call, the push
\* worker directly.
ReportStart(n) ==
    /\ UNCHANGED <<prefsVars, peerVars>>
    /\ worker \in {"email", "push"}
    /\ report[n].pc = "call"
    /\ IF worker = "email" /\ ~admitted(breaker, now)
        THEN /\ after_report(n, update_notification_status("breaker_open"), TRUE)
             /\ UNCHANGED <<breaker, gateway>>
        ELSE /\ breaker' = IF worker = "email" THEN after_admission(breaker, now)
                                                ELSE breaker
             /\ gateway' = IF worker = "email"
                             THEN update_gateway_status(n, report[n].status)
                             ELSE push_update_gateway_status(n, report[n].status)
             /\ report' = [report EXCEPT ![n].pc = "http", ![n].attempt = @ + 1,
                                          ![n].patches = @ + 1]
             /\ UNCHANGED <<h, txn>>
    /\ UNCHANGED <<worker, body, broker, deliveries, db, calls, path, now,
                   caller, consecFails, crashes, webhooks, route>>

\* the PATCH request ends.  tenacity would repeat update_notification_status
\* on a timeout or network error that left it, HTTP_MAX_RETRIES times in all.
ReportReturn(n, response) ==
    /\ UNCHANGED <<prefsVars, peerVars>>
    /\ worker \in {"email", "push"}
    /\ report[n].pc = "http"
    /\ IF worker = "email"
        THEN /\ breaker' = after_call(breaker, response # "ok", now)
             /\ LET result == update_notification_status(response)
                IN IF /\ result = "raise"
                      /\ response \in {"timeout", "network_error"}
                      /\ report[n].attempt < HTTP_MAX_RETRIES
                    THEN /\ report' = [report EXCEPT ![n].pc = "call",
                                                     ![n].failed = TRUE]
                         /\ UNCHANGED <<h, txn>>
                    ELSE after_report(n, result, response # "ok")
        ELSE /\ after_report(n, push_patch(response), response # "ok")
             /\ UNCHANGED breaker
    /\ UNCHANGED <<worker, body, broker, deliveries, db, calls, path, gateway,
                   now, caller, consecFails, crashes, webhooks, route>>

NextReport ==
    \/ \E n \in Msgs, site \in ReportSites : ReportSite(n, site)
    \/ \E n \in Msgs : ReportStart(n)
    \/ \E n \in Msgs, response \in GatewayResponses : ReportReturn(n, response)
    \/ \E n \in Msgs : HandleEmailExit(n)
    \/ \E n \in Msgs : Settle(n)
    \/ \E n \in Msgs : PushSettle(n)
    \/ Tick

(* ============ POST /send of the push service ============ *)

\* send_push_notification up to the publish: without a device token the
\* request ends 404; else the PushDelivery row is committed as queued
SendRequest(n, token) ==
    /\ UNCHANGED <<prefsVars, routeVars, peerVars>>
    /\ worker = "push"
    /\ body[n] = "none" /\ broker[n] = "none"
    /\ h[n].pc = "idle" /\ path[n] = "none"
    /\ db[<<n, 1>>] = Absent
    /\ IF token
        THEN /\ db' = [db EXCEPT ![<<n, 1>>] =
                    [NewDelivery EXCEPT !.status = "queued", !.sent_at = TRUE]]
             /\ h' = [h EXCEPT ![n].pc = "publish"]
             /\ UNCHANGED path
        ELSE /\ path' = [path EXCEPT ![n] = "http404"]
             /\ UNCHANGED <<db, h>>
    /\ UNCHANGED <<worker, body, broker, deliveries, txn, calls, gateway,
                   breaker, now, caller, consecFails, crashes, webhooks>>

\* publish_notification returns: the message is on the push queue and the
\* request ends 200, or the row is set failed and the request ends 500
SendPublish(n, published) ==
    /\ UNCHANGED <<prefsVars, routeVars, peerVars>>
    /\ worker = "push"
    /\ h[n].pc = "publish"
    /\ h' = [h EXCEPT ![n] = Idle]
    /\ IF published
        THEN /\ body' = [body EXCEPT ![n] = "published"]
             /\ broker' = [broker EXCEPT ![n] = "ready"]
             /\ path' = [path EXCEPT ![n] = "queued"]
             /\ UNCHANGED db
        ELSE /\ db' = [db EXCEPT ![<<n, 1>>].status = "failed",
                                 ![<<n, 1>>].error = "publish"]
             /\ path' = [path EXCEPT ![n] = "http500"]
             /\ UNCHANGED <<body, broker>>
    /\ UNCHANGED <<worker, deliveries, txn, calls, gateway, breaker, now,
                   caller, consecFails, crashes, webhooks>>

NextSend ==
    \/ \E n \in Msgs, token \in BOOLEAN : SendRequest(n, token)
    \/ \E n \in Msgs, published \in BOOLEAN : SendPublish(n, published)
    \/ NextPush

(* ============ one call of an ExternalAPIClient method ============ *)

ClientMethods ==
    {"get_user_preferences", "render_template", "update_notification_status"}

\* how a request ends, "nodata" being a 200 without data
ClientResponses == GatewayResponses \cup {"nodata"}

IdleClient ==
    [fn |-> "get_user_preferences", pc |-> "idle", attempt |-> 0, http |-> 0,
     last |-> "none", result |-> "none"]

\* a faulty method that lets a timeout or network error out of its body
client_returns_reraising(fn, response) ==
    IF response \in {"timeout", "network_error"} THEN "raise" ELSE "None"

\* what the body of an ExternalAPIClient method returns for the end of its
\* request, "breaker_open" being CircuitBreakerError: every exception is
\* caught in the body
client_returns(fn, response) ==
    CASE fn = "update_notification_status" -> update_notification_status(response)
      [] fn = "get_user_preferences" /\ response = "breaker_open" -> "default"
      [] response = "ok" -> "value"
      [] OTHER -> "None"

\* a handler calls the method
ClientCall ==
    /\ UNCHANGED <<prefsVars, routeVars>>
    /\ worker = "client"
    /\ client.pc \in {"idle", "done"}
    /\ client' = [IdleClient EXCEPT !.fn = client.fn, !.pc = "call"]
    /\ retry_count' = retry_count
    /\ UNCHANGED <<worker, body, broker, deliveries, h, txn, db, calls, path,
                   gateway, breaker, now, caller, consecFails, crashes, webhooks>>

\* tenacity runs the body: get_user_preferences reads the cache, then the
\* breaker admits the request or refuses it
ClientAttempt ==
    /\ UNCHANGED <<prefsVars, routeVars>>
    /\ worker = "client"
    /\ client.pc = "call"
    /\ IF client.fn = "get_user_preferences" /\ cache_get("u1") # "none"
        THEN /\ client' = [client EXCEPT !.pc = "done", !.attempt = @ + 1,
                                          !.result = "value"]
             /\ UNCHANGED breaker
        ELSE IF admitted(breaker, now)
        THEN /\ breaker' = after_admission(breaker, now)
             /\ client' = [client EXCEPT !.pc = "http", !.attempt = @ + 1,
                                          !.http = @ + 1]
        ELSE /\ client' = [client EXCEPT !.pc = "done", !.attempt = @ + 1,
                    !.last = "breaker_open",
                    !.result = client_returns(client.fn, "breaker_open")]
             /\ UNCHANGED breaker
    /\ retry_count' = retry_count
    /\ UNCHANGED <<worker, body, broker, deliveries, h, txn, db, calls, path,
                   gateway, now, caller, consecFails, crashes, webhooks>>

\* the request ends.  tenacity would run the body again on a timeout or
\* network error that left it, HTTP_MAX_RETRIES times in all.
ClientReturn(response) ==
    /\ UNCHANGED <<routeVars>>
    /\ worker = "client"
    /\ client.pc = "http"
    /\ breaker' = after_call(breaker, response \notin {"ok", "nodata"}, now)
    /\ LET result == IF response = "nodata" THEN "None"
                     ELSE client_returns(client.fn, response)
       IN IF /\ result = "raise"
             /\ response \in {"timeout", "network_error"}
             /\ client.attempt < HTTP_MAX_RETRIES
           THEN client' = [client EXCEPT !.pc = "call", !.last = response]
           ELSE client' = [client EXCEPT !.pc = "done", !.last = response,
                                         !.result = result]
    /\ cache' = IF client.fn = "get_user_preferences" /\ response = "ok"
                  THEN cache_set("u1", userService["u1"], CACHE_TTL)
                  ELSE cache
    /\ retry_count' = retry_count
    /\ UNCHANGED <<worker, body, broker, deliveries, h, txn, db, calls, path,
                   gateway, now, caller, consecFails, crashes, webhooks,
                   lookup, userService, userStore>>

NextClient ==
    \/ ClientCall
    \/ ClientAttempt
    \/ \E response \in ClientResponses : ClientReturn(response)
    \/ Tick

(* ============ the queue consumer of the user service ============ *)

\* RabbitMQConsumer.max_retries
max_retries == 3

\* what a message of the user service's queue holds: a notification for a
\* user with push enabled and a token, for a user with push disabled, for
\* a user without a token, for no user; no JSON; JSON that is not an
\* object, on which message.get raises
UserBodies == {"job", "disabled", "notoken", "nouser", "badjson", "notdict"}

\* RabbitMQConsumer.process_message for a body of this kind with
\* self.retry_count = count: what the broker is told and the count left
user_process_message(kind, count) ==
    CASE kind = "job" -> [broker |-> "acked", retry_count |-> 0]
      [] kind \in {"disabled", "notoken"} ->
            [broker |-> "acked", retry_count |-> count]
      [] kind \in {"nouser", "badjson"} ->
            [broker |-> "rejected", retry_count |-> count]
      [] OTHER ->
            IF count < max_retries
                THEN [broker |-> "ready", retry_count |-> count + 1]
                ELSE [broker |-> "rejected", retry_count |-> 0]

\* the blocking consumer (prefetch_count=1) is handed message n and
\* handles it to the end
UserProcess(n) ==
    /\ UNCHANGED <<prefsVars, routeVars>>
    /\ worker = "user"
    /\ broker[n] = "ready"
    /\ deliveries' = [deliveries EXCEPT ![n] = @ + 1]
    /\ LET end == user_process_message(body[n], retry_count)
       IN /\ broker' = [broker EXCEPT ![n] = end.broker]
          /\ retry_count' = end.retry_count
    /\ UNCHANGED client
    /\ UNCHANGED <<worker, body, h, txn, db, calls, path, gateway, breaker,
                   now, caller, consecFails, crashes, webhooks>>

NextUser ==
    \E n \in Msgs : UserProcess(n)

(* ======================= specifications ======================= *)

InitWorker ==
    /\ broker = [n \in Msgs |-> "ready"]
    /\ deliveries = [n \in Msgs |-> 0]
    /\ h = [n \in Msgs |-> Idle]
    /\ txn = [n \in Msgs |-> Absent]
    /\ db = [r \in RowIds |-> Absent]
    /\ calls = [n \in Msgs |-> 0]
    /\ path = [n \in Msgs |-> "none"]
    /\ gateway = [n \in Msgs |-> "none"]
    /\ breaker = InitBreaker
    /\ now = 0
    /\ caller = [c \in Callers |-> "idle"]
    /\ consecFails = 0
    /\ crashes = 0
    /\ webhooks = 0
    /\ lookup = [t \in Handlers |-> IdleLookup]
    /\ cache = [u \in Users |-> NoEntry]
    /\ route = IdleRoute
    /\ report = [n \in Msgs |-> IdleReport]
    /\ userStore = [u \in Users |-> NoStore]
    /\ client = IdleClient
    /\ retry_count = 0

\* an email job must name a template_id (QueueMessage)
InitEmail ==
    /\ worker = "email"
    /\ userService = [u \in Users |-> "ok"]
    /\ body \in [Msgs -> {"job", "badjson", "badutf8", "badschema"}]
    /\ InitWorker

\* a push job may name no template (template_id and template_code optional)
InitPush ==
    /\ worker = "push"
    /\ userService = [u \in Users |-> "ok"]
    /\ body \in [Msgs -> {"job", "badjson", "badutf8", "badschema", "notemplate"}]
    /\ InitWorker

InitBreakerCalls ==
    /\ worker = "breaker"
    /\ userService = [u \in Users |-> "ok"]
    /\ body = [n \in Msgs |-> "job"]
    /\ InitWorker

Init == InitEmail \/ InitPush

Next == NextEmail \/ NextPush

\* the two channel workers
Spec == Init /\ [][Next]_vars

InitPrefs ==
    /\ worker = "prefs"
    /\ body = [n \in Msgs |-> "job"]
    /\ userService \in [Users -> PrefValues]
    /\ InitWorker

\* the preference lookups of concurrent handlers, with user_service_breaker
SpecPrefs == InitPrefs /\ [][NextPrefs]_vars

\* preference updates in the user service and lookups by the worker
SpecFresh == InitPrefs /\ [][NextFresh]_vars

\* the queue holds gateway jobs; POST /send adds its own messages
InitSend ==
    /\ worker = "push"
    /\ userService = [u \in Users |-> "ok"]
    /\ body \in [Msgs -> {"job", "none"}]
    /\ broker = [n \in Msgs |-> IF body[n] = "none" THEN "none" ELSE "ready"]
    /\ deliveries = [n \in Msgs |-> 0]
    /\ h = [n \in Msgs |-> Idle]
    /\ txn = [n \in Msgs |-> Absent]
    /\ db = [r \in RowIds |-> Absent]
    /\ calls = [n \in Msgs |-> 0]
    /\ path = [n \in Msgs |-> "none"]
    /\ gateway = [n \in Msgs |-> "none"]
    /\ breaker = InitBreaker
    /\ now = 0
    /\ caller = [c \in Callers |-> "idle"]
    /\ consecFails = 0
    /\ crashes = 0
    /\ webhooks = 0
    /\ lookup = [t \in Handlers |-> IdleLookup]
    /\ cache = [u \in Users |-> NoEntry]
    /\ route = IdleRoute
    /\ report = [n \in Msgs |-> IdleReport]
    /\ userStore = [u \in Users |-> NoStore]
    /\ client = IdleClient
    /\ retry_count = 0

\* the push worker with its POST /send route
SpecSend == InitSend /\ [][NextSend]_vars

\* `breaker` is the breaker of the method called: user_service_breaker,
\* template_service_breaker or gateway_breaker
InitClient ==
    /\ worker = "client"
    /\ userService = [u \in Users |-> "ok"]
    /\ body = [n \in Msgs |-> "job"]
    /\ broker = [n \in Msgs |-> "ready"]
    /\ deliveries = [n \in Msgs |-> 0]
    /\ h = [n \in Msgs |-> Idle]
    /\ txn = [n \in Msgs |-> Absent]
    /\ db = [r \in RowIds |-> Absent]
    /\ calls = [n \in Msgs |-> 0]
    /\ path = [n \in Msgs |-> "none"]
    /\ gateway = [n \in Msgs |-> "none"]
    /\ breaker = InitBreaker
    /\ now = 0
    /\ caller = [c \in Callers |-> "idle"]
    /\ consecFails = 0
    /\ crashes = 0
    /\ webhooks = 0
    /\ lookup = [t \in Handlers |-> IdleLookup]
    /\ cache = [u \in Users |-> NoEntry]
    /\ route = IdleRoute
    /\ report = [n \in Msgs |-> IdleReport]
    /\ userStore = [u \in Users |-> NoStore]
    /\ client \in {[IdleClient EXCEPT !.fn = fn] : fn \in ClientMethods}
    /\ retry_count = 0

\* calls of the ExternalAPIClient methods, one after another
SpecClient == InitClient /\ [][NextClient]_vars

InitUser ==
    /\ worker = "user"
    /\ userService = [u \in Users |-> "ok"]
    /\ body \in [Msgs -> UserBodies]
    /\ InitWorker

\* the user service's consumer and the messages of its queue
SpecUser == InitUser /\ [][NextUser]_vars

\* one breaker and the tasks that call it
SpecBreaker == InitBreakerCalls /\ [][NextBreaker]_vars

\* rows the email worker commits: one of a sent message with its message
\* id, one of a job whose attempts all failed, one already delivered
SeedRows(r) ==
    {Absent,
     [NewDelivery EXCEPT !.status = "sent", !.sent_at = TRUE,
                         !.attempt_count = 1, !.pmid = r],
     [NewDelivery EXCEPT !.status = "failed", !.failed_at = TRUE,
                         !.attempt_count = MAX_RETRY_ATTEMPTS,
                         !.error = "transient"],
     [NewDelivery EXCEPT !.status = "delivered", !.sent_at = TRUE,
                         !.delivered_at = TRUE, !.attempt_count = 1, !.pmid = r]}

InitWebhook ==
    /\ worker = "webhook"
    /\ userService = [u \in Users |-> "ok"]
    /\ body = [n \in Msgs |-> "job"]
    /\ db \in [RowIds -> UNION {SeedRows(r) : r \in RowIds}]
    /\ \A r \in RowIds : db[r] \in (IF r[2] = 1 THEN SeedRows(r) ELSE {Absent})
    /\ broker = [n \in Msgs |-> IF db[<<n, 1>>] = Absent THEN "ready" ELSE "acked"]
    /\ deliveries = [n \in Msgs |-> IF db[<<n, 1>>] = Absent THEN 0 ELSE 1]
    /\ gateway = [n \in Msgs |-> IF db[<<n, 1>>] = Absent THEN "none"
                                  ELSE status_mapping(db[<<n, 1>>].status)]
    /\ h = [n \in Msgs |-> Idle]
    /\ txn = [n \in Msgs |-> Absent]
    /\ calls = [n \in Msgs |-> 0]
    /\ path = [n \in Msgs |-> "none"]
    /\ breaker = InitBreaker
    /\ now = 0
    /\ caller = [c \in Callers |-> "idle"]
    /\ consecFails = 0
    /\ crashes = 0
    /\ webhooks = 0
    /\ lookup = [t \in Handlers |-> IdleLookup]
    /\ cache = [u \in Users |-> NoEntry]
    /\ route = [IdleRoute EXCEPT !.session = db]
    /\ report = [n \in Msgs |-> IdleReport]
    /\ userStore = [u \in Users |-> NoStore]
    /\ client = IdleClient
    /\ retry_count = 0

\* the webhook route of the email worker over a table of earlier deliveries
SpecWebhook == InitWebhook /\ [][NextWebhook]_vars

\* gateway_breaker as earlier reports can have left it: closed, one failure
\* from opening, open
GatewayBreakers ==
    {InitBreaker,
     [state |-> "closed", failure_count |-> CIRCUIT_BREAKER_FAIL_MAX - 1,
      last_failure_time |-> 0],
     [state |-> "open", failure_count |-> CIRCUIT_BREAKER_FAIL_MAX,
      last_failure_time |-> 0]}

InitReport ==
    /\ worker \in {"email", "push"}
    /\ userService = [u \in Users |-> "ok"]
    /\ body = [n \in Msgs |-> "job"]
    /\ broker = [n \in Msgs |-> "ready"]
    /\ deliveries = [n \in Msgs |-> 0]
    /\ h = [n \in Msgs |-> Idle]
    /\ txn = [n \in Msgs |-> Absent]
    /\ db = [r \in RowIds |-> Absent]
    /\ calls = [n \in Msgs |-> 0]
    /\ path = [n \in Msgs |-> "none"]
    /\ gateway = [n \in Msgs |-> "none"]
    /\ breaker \in (IF worker = "email" THEN GatewayBreakers ELSE {InitBreaker})
    /\ now = 0
    /\ caller = [c \in Callers |-> "idle"]
    /\ consecFails = 0
    /\ crashes = 0
    /\ webhooks = 0
    /\ lookup = [t \in Handlers |-> IdleLookup]
    /\ cache = [u \in Users |-> NoEntry]
    /\ route = IdleRoute
    /\ report = [n \in Msgs |-> IdleReport]
    /\ userStore = [u \in Users |-> NoStore]
    /\ client = IdleClient
    /\ retry_count = 0

\* the status reports of the handlers of either worker
SpecReport == InitReport /\ [][NextReport]_vars

(* ======================= the claims ======================= *)

\* C1: however often a job is delivered, the table holds at most one row for
\* its notification_id (the create step returns the existing row).
C1_OneRowPerNotification ==
    \A n \in Msgs : Cardinality(RowsOf(n)) <= 1

\* C2: a row in a terminal status keeps that status: no webhook event and no
\* later send attempt changes it.
C2_TerminalStaysTerminal ==
    [][\A r \in RowIds :
        db[r].status \in {"delivered", "bounced", "failed", "skipped"}
            => db'[r].status = db[r].status]_vars

\* C3: from opened_at until opened_at + open_timeout the breaker stays open
\* and opened_at does not move, whatever calls admitted earlier complete.
C3_OpenForTheWholeInterval ==
    [][(/\ breaker.state = "open"
        /\ now' < breaker.last_failure_time + CIRCUIT_BREAKER_TIMEOUT)
       => (/\ breaker'.state = "open"
           /\ breaker'.last_failure_time = breaker.last_failure_time)]_vars

\* C4: after open_timeout exactly one call is admitted as the half-open
\* probe; no second call reaches the dependency while the probe is running.
C4_OneProbe ==
    Cardinality({c \in Callers : caller[c] = "probe"}) <= 1

C6_AckAfterCommit ==
    [][\A n \in Msgs :
        /\ (broker[n] = "unacked" /\ broker'[n] = "acked") =>
              /\ txn[n] = Absent
              /\ path[n] = "sent" => db[RowOf(n)].pmid = RowOf(n)
        /\ (crashes' # crashes /\ broker[n] = "unacked") => broker'[n] = "ready"]_vars

\* a job redelivered after the worker stopped, then sent, committed, acked
C6_Witness ==
    \E n \in Msgs :
        /\ broker[n] = "acked" /\ path[n] = "sent" /\ deliveries[n] = 2
        /\ db[RowOf(n)].pmid = RowOf(n)

\* C7: when the handler fails a job (returns False or raises), the message
\* is negatively acknowledged with requeue: it is back on the queue.
C7_FailureIsRequeued ==
    [][\A n \in Msgs :
        (/\ h[n].pc = "settle" /\ h[n].ret = "raise"
         /\ path[n] \notin {"badjson", "badutf8", "badschema"}
         /\ h'[n].pc = "idle" /\ crashes' = crashes)
            => broker'[n] = "ready"]_vars

C9_PersistBeforeSend ==
    \A n \in Msgs :
        h[n].pc = "call" =>
            (txn[n].status # "absent" \/ db[RowOf(n)].status # "absent")

\* C10: once failure_threshold consecutive provider sends have failed the
\* provider breaker is open and no further provider call is started.
C10_BreakerOpensOnFailedSends ==
    [][consecFails >= CIRCUIT_BREAKER_FAIL_MAX =>
        /\ breaker.state = "open"
        /\ \A n \in Msgs : calls'[n] <= calls[n]]_vars

C12_AttemptCountBounded ==
    \A r \in RowIds : db[r].attempt_count <= MAX_RETRY_ATTEMPTS

C12_Witness ==
    \E r \in RowIds :
        db[r].status = "failed" /\ db[r].attempt_count = MAX_RETRY_ATTEMPTS

\* C13: while a provider call of the email worker is in flight, the handler
\* has no open transaction and the count of that attempt is committed.
C13_CountCommittedBeforeCall ==
    \A n \in Msgs :
        (worker = "email" /\ h[n].pc = "call") =>
            /\ txn[n] = Absent
            /\ db[RowOf(n)].attempt_count = h[n].attempt

\* C14: a send that fails with a permanent error is the job's only provider
\* call: no further attempt follows it.
C14_PermanentNotRetried ==
    \A n \in Msgs :
        (worker = "email" /\ txn[n].status = "failed" /\ txn[n].error = "permanent")
            => (calls[n] = 1 /\ h[n].pc = "exit")

\* C15: a closed breaker has fewer than failure_threshold failures counted;
\* a call that returns while it is closed either succeeds, which sets the
\* count to 0 and keeps it closed, or fails, which adds one to the count,
\* records the time, and opens the breaker exactly when the count reaches
\* failure_threshold.
C15_ClosedCountsFailures ==
    [][/\ breaker.state = "closed" =>
              breaker.failure_count < CIRCUIT_BREAKER_FAIL_MAX
       /\ (breaker.state = "closed" /\ breaker' # breaker) =>
              \/ /\ breaker'.failure_count = 0
                 /\ breaker'.state = "closed"
                 /\ breaker'.last_failure_time = breaker.last_failure_time
              \/ /\ breaker'.failure_count = breaker.failure_count + 1
                 /\ breaker'.last_failure_time = now
                 /\ breaker'.state =
                       IF breaker.failure_count + 1 = CIRCUIT_BREAKER_FAIL_MAX
                         THEN "open" ELSE "closed"]_vars

\* the breaker has just opened on its failure_threshold-th failure
C15_Witness ==
    /\ worker = "breaker"
    /\ breaker.state = "open"
    /\ breaker.failure_count = CIRCUIT_BREAKER_FAIL_MAX
    /\ breaker.last_failure_time = now

\* C16: while the breaker is open and open_timeout has not elapsed, a call
\* is refused without running the protected function, and the refusal leaves
\* state, failure count and failure time as they were.
C16_OpenFailsFast ==
    [][(breaker.state = "open" /\ ~should_attempt_reset(breaker, now)) =>
        \A c \in Callers :
            (caller[c] \in {"idle", "failed_fast"} /\ caller'[c] # caller[c]) =>
                (caller'[c] = "failed_fast" /\ breaker' = breaker)]_vars

C16_Witness ==
    /\ worker = "breaker"
    /\ breaker.state = "open" /\ ~should_attempt_reset(breaker, now)
    /\ \E c \in Callers : caller[c] = "failed_fast"

\* C17: when a half-open probe returns, the breaker is either closed with
\* failure count 0 (the probe succeeded) or open with the failure time set to
\* the time of the return (the probe failed).
C17_ProbeDecides ==
    [][\A c \in Callers :
        (caller[c] = "probe" /\ caller'[c] = "idle") =>
            \/ breaker'.state = "closed" /\ breaker'.failure_count = 0
            \/ breaker'.state = "open" /\ breaker'.last_failure_time = now]_vars

\* C19: when the user's preferences have the channel disabled, the worker
\* goes on to neither render nor send, writes no row, sends the gateway the
\* status pending, and the message is acknowledged.
C19_DisabledIsSkipped ==
    [][\A n \in Msgs :
        /\ (h[n].pc = "prefs" /\ path'[n] = "skipped") =>
              /\ h'[n].pc \in {"exit", "settle"}
              /\ calls'[n] = 0
              /\ txn'[n] = Absent
              /\ gateway'[n] = "pending"
        /\ (path[n] = "skipped" /\ h[n].pc = "settle" /\ h'[n].pc = "idle"
                /\ crashes' = crashes) =>
              /\ broker'[n] = "acked"
              /\ db'[RowOf(n)].status \in {"absent", "skipped"}]_vars

\* C20: a job whose user has the channel enabled but no address (email) or
\* device token (push) ends with a row in status failed, and its message is
\* acknowledged.
C20_NoAddressIsFailedAndAcked ==
    [][\A n \in Msgs :
        (path[n] = "noaddr" /\ h[n].pc = "settle" /\ h'[n].pc = "idle"
            /\ crashes' = crashes) =>
              /\ broker'[n] = "acked"
              /\ db[RowOf(n)].status = "failed"]_vars

\* C18: failure_threshold consecutive failed user-service requests leave
\* user_service_breaker open; a lookup made while it is open and its timeout
\* has not elapsed, for a user with no cached preferences, makes no request,
\* returns the default preferences (channel enabled, no address), and the
\* job then ends failed for want of an address.
C18_OpenUserBreakerGivesDefault ==
    [][/\ breaker.failure_count >= CIRCUIT_BREAKER_FAIL_MAX =>
              breaker.state # "closed"
       /\ \A t \in Handlers :
            /\ (/\ lookup[t].pc = "idle" /\ lookup'[t].pc # "idle"
                /\ breaker.state = "open" /\ ~should_attempt_reset(breaker, now)
                /\ cache_get(lookup'[t].user) = "none") =>
                  /\ lookup'[t].http = 0
                  /\ lookup'[t].pc = "done"
                  /\ lookup'[t].source = "default"
                  /\ lookup'[t].result = "noaddr"
                  /\ breaker' = breaker
                  /\ cache' = cache
            /\ (/\ lookup[t].pc = "done" /\ lookup[t].source = "default"
                /\ lookup'[t].pc = "idle") =>
                  /\ lookup'[t].outcome = "noaddr"
                  /\ lookup'[t].reported = "failed"]_vars

\* a lookup answered with the default after five failed requests, while the
\* other user's preferences are in the cache
C18_Witness ==
    \E t \in Handlers :
        /\ lookup[t].pc = "done" /\ lookup[t].source = "default"
        /\ lookup[t].http = 0
        /\ breaker.state = "open"
        /\ breaker.failure_count = CIRCUIT_BREAKER_FAIL_MAX
        /\ \E u \in Users : u # lookup[t].user /\ cache[u].value # "none"

C22_OneTerminalTimestamp ==
    \A r \in RowIds :
        db[r].status \in {"delivered", "bounced", "failed"} =>
            (db[r].delivered_at # db[r].failed_at)

\* C23: once a row has a provider_message_id, nothing changes it: neither
\* in the handler's transaction nor in the committed table.
C23_MessageIdIsKept ==
    [][/\ \A r \in RowIds :
            db[r].pmid # NoPmid => db'[r].pmid = db[r].pmid
       /\ \A n \in Msgs :
            (txn[n].pmid # NoPmid /\ crashes' = crashes) =>
                \/ txn'[n].pmid = txn[n].pmid
                \/ txn'[n] = Absent /\ db'[RowOf(n)].pmid = txn[n].pmid]_vars

\* a sent row that a webhook event has since moved, its message id in place
C23_Witness ==
    \E r \in RowIds :
        db[r].status \in {"delivered", "bounced", "pending"} /\ db[r].pmid = r

\* C27: every status sent to the gateway, by either worker, is one of
\* delivered, failed, pending.
C27_GatewayStatusIsExternal ==
    \A n \in Msgs : gateway[n] \in {"none", "delivered", "failed", "pending"}

\* C30 as stated: a message whose body cannot be decoded is acknowledged.
C30_UndecodableIsAcked ==
    [][\A n \in Msgs :
        (path[n] \in {"badjson", "badutf8"} /\ h[n].pc = "settle"
            /\ h'[n].pc = "idle" /\ crashes' = crashes) => broker'[n] = "acked"]_vars

\* C30, amended: a message whose body cannot be decoded never reaches the
\* handler, leaves no row and is never requeued: the email consumer
\* acknowledges a body that is not JSON and rejects one that is not UTF-8,
\* the push consumer rejects both, without requeue.
C30_UndecodableIsDropped ==
    [][\A n \in Msgs :
        /\ (broker[n] = "ready" /\ broker'[n] = "unacked"
                /\ body[n] \in {"badjson", "badutf8"}) =>
              /\ h'[n].pc = "settle"
              /\ path'[n] = body[n]
              /\ gateway'[n] = gateway[n]
        /\ (path[n] \in {"badjson", "badutf8"} /\ h[n].pc = "settle"
                /\ h'[n].pc = "idle" /\ crashes' = crashes) =>
              /\ broker'[n] = IF worker = "email" /\ path[n] = "badjson"
                                THEN "acked" ELSE "rejected"
              /\ calls[n] = 0
              /\ db'[RowOf(n)].status = "absent"]_vars

C30_Witness ==
    /\ worker = "email"
    /\ \E n, m \in Msgs :
          /\ path[n] = "badjson" /\ broker[n] = "acked"
          /\ path[m] = "badutf8" /\ broker[m] = "rejected"

C25_EmptyMessageIdIsSkipped ==
    [][(Len(route'.results) = Len(route.results) + 1
            /\ route'.last.pmid = EmptyPmid) =>
          /\ route'.session = route.session
          /\ gateway' = gateway
          /\ route'.processed_count = route.processed_count
          /\ ~route'.results[Len(route'.results)]]_vars

\* such an event handled while exactly one row has no message id
C25_Witness ==
    /\ route.last.pmid = EmptyPmid
    /\ route.last.fault = "none"
    /\ Cardinality({r \in RowIds : route.session[r].status = "failed"
                                     /\ route.session[r].pmid = NoPmid}) = 1

C34_PushRetriesRefusedSend ==
    \A n \in Msgs :
        (worker = "push" /\ path[n] = "send_failed") =>
            calls[n] = MAX_RETRY_ATTEMPTS

\* C35: no job has two accepted sends: at most one row of a notification
\* carries a provider_message_id.
C35_OneAcceptedSend ==
    \A n \in Msgs :
        Cardinality({r \in RowIds : r[1] = n /\ db[r].pmid # NoPmid}) <= 1

\* C36: a row that is failed in the handler's session is never sent
\* afterwards: between attempts the row stays pending.
C36_PendingBetweenAttempts ==
    [][\A n \in Msgs :
        txn[n].status = "failed" => txn'[n].status # "sent"]_vars

\* C38: a closed breaker has counted fewer failures than its threshold; an
\* open or half-open one has counted at least the threshold and has a
\* failure time.
C38_StateAgreesWithCount ==
    /\ breaker.state = "closed" =>
          breaker.failure_count < CIRCUIT_BREAKER_FAIL_MAX
    /\ breaker.state \in {"open", "half_open"} =>
          /\ breaker.failure_count >= CIRCUIT_BREAKER_FAIL_MAX
          /\ breaker.last_failure_time # NoTime

\* a half-open breaker with two probes running and a call admitted earlier
C38_Witness ==
    /\ worker = "breaker"
    /\ breaker.state = "half_open"
    /\ Cardinality({c \in Callers : caller[c] = "probe"}) = 2
    /\ \E c \in Callers : caller[c] = "in_call"

C37_DefaultIsNotCached ==
    [][/\ \A t \in Handlers :
            /\ (lookup[t].pc = "idle" /\ lookup'[t].source = "default") =>
                  /\ cache' = cache
                  /\ breaker.state # "closed"
            /\ (/\ lookup[t].pc # "done" /\ lookup'[t].pc = "done"
                /\ lookup'[t].source \in {"cache", "service"}
                /\ lookup'[t].result # "none") =>
                  lookup'[t].result = userService[lookup'[t].user]
       /\ \A u \in Users : cache'[u].value \in {"none", userService[u]}]_vars

\* the default returned for a user who has the channel disabled, nothing
\* of that user in the cache
C37_Witness ==
    \E t \in Handlers :
        /\ lookup[t].pc = "done" /\ lookup[t].source = "default"
        /\ lookup[t].result = default_preferences
        /\ userService[lookup[t].user] = "disabled"
        /\ cache[lookup[t].user] = NoEntry

\* C39: a notification POST /send has queued does not end with its
\* message rejected (dead-lettered) and its row still queued.
C39_QueuedSendIsProcessed ==
    \A n \in Msgs :
        ~(/\ body[n] = "published" /\ broker[n] = "rejected"
          /\ db[<<n, 1>>].status = "queued")

\* C40: a message whose processing always raises is rejected only at its
\* delivery number max_retries + 1, having been requeued max_retries
\* times, whatever else is on the queue.
C40_OwnRetryBudget ==
    \A n \in Msgs :
        (body[n] = "notdict" /\ broker[n] = "rejected") =>
            deliveries[n] = max_retries + 1

====
